---- MODULE Spec2Model ----
(***************************************************************************)
(* Model of the dependency-aware lifecycle orchestrator of package         *)
(* framework: Service (component.go) and its closing Stack (cleanup.go).   *)
(*                                                                         *)
(* The program is single-threaded: one caller drives                       *)
(* RegisterDependentComponents, Start and Stop.  Service.Start is modelled *)
(* with an explicit call stack of startComponent frames so that every      *)
(* invocation of a component's Start or Stop is its own step.              *)
(***************************************************************************)
EXTENDS Integers, Sequences, FiniteSets, TLC

\* ------------------------------------------------------------------------
\* Bounds
\* ------------------------------------------------------------------------
\* number of RegisterDependentComponents calls (accepted or rejected)
MaxRegs == 3
\* number of Service.Start calls
MaxStarts == 2
\* number of Service.Stop calls
MaxStops == 2
\* number of component Start/Stop operations that return an error
MaxFaults == 1
\* number of API calls (Register, Start, Stop) made on the Service in all
MaxCalls == 5
\* depth of startComponent recursion at which the goroutine stack overflows
MaxStack == 4

\* the component instances (CompA, CompB, CompC of component_test.go)
CompOrder == <<"A", "B", "C">>
Comps == {CompOrder[i] : i \in DOMAIN CompOrder}
NoComp == "-"

\* error values
NilErr == "nil"
alreadyRegisteredError == "alreadyRegisteredError"
dependencyCycleError == "dependencyCycleError"
startFailedError == "failed to start component"

VARIABLES
    components,           \* Service.components: the list given to NewService
    dependantComponents,  \* Service.dependantComponents: component -> list
    startedComponents,    \* keys of Service.startedComponents
    closingStack,         \* Service.closingStack.Functions
    pc,                   \* what the caller is executing
    idx,                  \* loop position of Service.Start in components
    stack,                \* call stack of startComponent frames
    lastErr,              \* return value of the last completed API call
    trace,                \* every component Start/Stop invocation, in order
    graphAtStart,         \* dependantComponents when Start was last called
    nRegs, nStarts, nStops, nFaults

vars == <<components, dependantComponents, startedComponents, closingStack,
          pc, idx, stack, lastErr, trace, graphAtStart,
          nRegs, nStarts, nStops, nFaults>>

\* ------------------------------------------------------------------------
\* Helpers
\* ------------------------------------------------------------------------
Range(s) == {s[i] : i \in DOMAIN s}

Front(s) == SubSeq(s, 1, Len(s) - 1)

Last(s) == s[Len(s)]

Reverse(s) == [i \in 1..Len(s) |-> s[Len(s) + 1 - i]]

Event(op, c, ok) == [op |-> op, c |-> c, ok |-> ok]

\* ------------------------------------------------------------------------
\* cleanup.go: Stack
\* ------------------------------------------------------------------------
\* NewStack
NewStack == <<>>

\* push as it would be if it put the new element first
push_Prepend(functions, f) == <<f>> \o functions

\* Stack.push
push(functions, f) == Append(functions, f)

\* Stack.Add as it would be if it pushed the action twice
Add_Twice(functions, name, action) ==
    push(push(functions, [Name |-> name, Action |-> action]),
         [Name |-> name, Action |-> action])

\* Stack.Add: the Function record; Action is the component whose Stop the
\* CloseFunc closure of startComponent calls
Add(functions, name, action) == push(functions, [Name |-> name, Action |-> action])

\* the nil *Function
NilFunction == [Name |-> "", Action |-> NoComp]

\* pop as it would be if it took the oldest element
pop_Oldest(functions) ==
    IF Len(functions) > 0
    THEN [v |-> Head(functions), rest |-> Tail(functions)]
    ELSE [v |-> NilFunction, rest |-> functions]

\* pop as it would be if it left the element on the stack when it is the
\* only one
pop_KeepLast(functions) ==
    IF Len(functions) > 1
    THEN [v |-> Last(functions), rest |-> Front(functions)]
    ELSE IF Len(functions) = 1
    THEN [v |-> NilFunction, rest |-> functions]
    ELSE [v |-> NilFunction, rest |-> functions]

\* Stack.pop: the popped element (or nil) and the remaining Functions
pop(functions) ==
    IF Len(functions) > 0
    THEN [v |-> Last(functions), rest |-> Front(functions)]
    ELSE [v |-> NilFunction, rest |-> functions]

\* ------------------------------------------------------------------------
\* component.go: Service
\* ------------------------------------------------------------------------
\* the two lookup loops of RegisterDependentComponents
Contains(list, x) == \E i \in DOMAIN list : list[i] = x

\* RegisterDependentComponents as it would be without the reverse-edge check
RegisterResult_NoCycleCheck(deps, a, b) ==
    IF Contains(deps[a], b)
    THEN [err |-> alreadyRegisteredError, deps |-> deps]
    ELSE [err |-> NilErr, deps |-> [deps EXCEPT ![a] = Append(deps[a], b)]]

\* RegisterDependentComponents as it would be without the duplicate check
RegisterResult_NoDuplicateCheck(deps, a, b) ==
    IF Contains(deps[b], a)
    THEN [err |-> dependencyCycleError, deps |-> deps]
    ELSE [err |-> NilErr, deps |-> [deps EXCEPT ![a] = Append(deps[a], b)]]

\* RegisterDependentComponents as it would be if the reverse-edge check
\* searched a's list instead of b's
RegisterResult_WrongList(deps, a, b) ==
    IF Contains(deps[a], a)
    THEN [err |-> dependencyCycleError, deps |-> deps]
    ELSE IF Contains(deps[a], b)
    THEN [err |-> alreadyRegisteredError, deps |-> deps]
    ELSE [err |-> NilErr, deps |-> [deps EXCEPT ![a] = Append(deps[a], b)]]

\* RegisterDependentComponents as it would be if the cycle check also
\* followed b's dependencies one step further
RegisterResult_DeepCheck(deps, a, b) ==
    IF Contains(deps[b], a)
          \/ \E c \in DOMAIN deps : Contains(deps[b], c) /\ Contains(deps[c], a)
    THEN [err |-> dependencyCycleError, deps |-> deps]
    ELSE IF Contains(deps[a], b)
    THEN [err |-> alreadyRegisteredError, deps |-> deps]
    ELSE [err |-> NilErr, deps |-> [deps EXCEPT ![a] = Append(deps[a], b)]]

\* RegisterDependentComponents as a function of the graph
RegisterResult(deps, a, b) ==
    IF Contains(deps[b], a)
    THEN [err |-> dependencyCycleError, deps |-> deps]
    ELSE IF Contains(deps[a], b)
    THEN [err |-> alreadyRegisteredError, deps |-> deps]
    ELSE [err |-> NilErr, deps |-> [deps EXCEPT ![a] = Append(deps[a], b)]]

\* checkForDependantComponents as it would be with the started test inverted
checkForDependantComponents_Inverted(deps, started, componentToCheck) ==
    SelectSeq(deps[componentToCheck], LAMBDA d : d \in started)

\* checkForDependantComponents as it would be if it returned the
\* dependencies newest first
checkForDependantComponents_Reversed(deps, started, componentToCheck) ==
    LET r == SelectSeq(deps[componentToCheck], LAMBDA d : d \notin started)
    IN [i \in 1..Len(r) |-> r[Len(r) + 1 - i]]

\* checkForDependantComponents as it would be if it returned only the first
\* dependency that is not started
checkForDependantComponents_FirstOnly(deps, started, componentToCheck) ==
    LET r == SelectSeq(deps[componentToCheck], LAMBDA d : d \notin started)
    IN SubSeq(r, 1, IF Len(r) > 0 THEN 1 ELSE 0)

\* checkForDependantComponents: the dependencies not yet started, in
\* registration order
checkForDependantComponents(deps, started, componentToCheck) ==
    SelectSeq(deps[componentToCheck], LAMBDA d : d \notin started)

\* the caller may make another API call
MayCall == pc = "idle" /\ nRegs + nStarts + nStops < MaxCalls

\* a startComponent frame past its entry check: the component, the
\* dependencies collected at entry, the position of the dependency loop
Frame(c, deps) == [component |-> c, depComponents |-> deps, i |-> 1]

Top == stack[Len(stack)]

\* where execution continues: the call stack, the position of the loop of
\* Service.Start, and what Service.Start returns ("none": still running,
\* "overflow": the recursion exhausted the goroutine stack)
Continuation(stk, ix, returns) == [stack |-> stk, idx |-> ix, returns |-> returns]

\* Resume as it would be if callers dropped the error of startComponent
Resume_IgnoreErr(stk, ix, failed) ==
    IF stk = <<>>
    THEN Continuation(<<>>, ix + 1, "none")
    ELSE Continuation([stk EXCEPT ![Len(stk)].i = @ + 1], ix, "none")

\* startComponent returned to its caller, which is the dependency loop of
\* the frame on top of stk or, with stk empty, the loop of Service.Start:
\* an error is wrapped and returned further up, nil moves the loop on
RECURSIVE Resume(_, _, _)
Resume(stk, ix, failed) ==
    IF stk = <<>>
    THEN IF failed
         THEN Continuation(<<>>, ix, startFailedError)
         ELSE Continuation(<<>>, ix + 1, "none")
    ELSE IF failed
         THEN Resume(Front(stk), ix, failed)
         ELSE Continuation([stk EXCEPT ![Len(stk)].i = @ + 1], ix, "none")

\* Call as it would be without the already-started check
Call_NoMemo(stk, ix, c) ==
    IF Len(stk) >= MaxStack
    THEN Continuation(stk, ix, "overflow")
    ELSE Continuation(
             Append(stk, Frame(c, checkForDependantComponents(
                                      dependantComponents, startedComponents, c))),
             ix, "none")

\* startComponent(c) is called from the caller described by stk and ix, and
\* runs its entry: already started -> return nil; otherwise collect the
\* dependencies that are not started yet.  A call deeper than MaxStack
\* overflows the goroutine stack, which ends the process.
Call(stk, ix, c) ==
    IF Len(stk) >= MaxStack
    THEN Continuation(stk, ix, "overflow")
    ELSE IF c \in startedComponents
    THEN Resume(stk, ix, FALSE)
    ELSE Continuation(
             Append(stk, Frame(c, checkForDependantComponents(
                                      dependantComponents, startedComponents, c))),
             ix, "none")

\* go on at continuation k, tr being the trace so far
Continue(k, tr) ==
    /\ stack' = k.stack
    /\ idx' = k.idx
    /\ IF k.returns = "none"
       THEN /\ trace' = tr
            /\ UNCHANGED <<pc, lastErr>>
       ELSE IF k.returns = "overflow"
       THEN /\ pc' = "crashed"
            /\ trace' = tr
            /\ UNCHANGED lastErr
       ELSE /\ pc' = "idle"
            /\ lastErr' = k.returns
            /\ trace' = Append(tr, Event("Service.Start returns", NoComp, FALSE))

\* The lists given to NewService.  Components are opaque and
\* interchangeable, so every list without repeated entries is, up to
\* renaming the components, A, B, ... in this order; the dependency graph
\* stays arbitrary, so the list order is arbitrary relative to the edges.
ComponentLists == {SubSeq(CompOrder, 1, n) : n \in 0..Len(CompOrder)}

\* NewService(components)
Init ==
    /\ components \in ComponentLists
    /\ dependantComponents = [c \in Comps |-> <<>>]
    /\ startedComponents = {}
    /\ closingStack = NewStack
    /\ pc = "idle"
    /\ idx = 1
    /\ stack = <<>>
    /\ lastErr = NilErr
    /\ trace = <<>>
    /\ graphAtStart = [c \in Comps |-> <<>>]
    /\ nRegs = 0 /\ nStarts = 0 /\ nStops = 0 /\ nFaults = 0

\* Service.RegisterDependentComponents(a, b)
RegisterDependentComponents(a, b) ==
    /\ MayCall
    /\ nRegs < MaxRegs
    /\ LET r == RegisterResult(dependantComponents, a, b)
       IN /\ dependantComponents' = r.deps
          /\ lastErr' = r.err
    /\ nRegs' = nRegs + 1
    /\ UNCHANGED <<components, startedComponents, closingStack, pc, idx, stack,
                   trace, graphAtStart, nStarts, nStops, nFaults>>

\* the call of Service.Start as it would be if it cleared the started set
Start_Reset ==
    /\ MayCall
    /\ nStarts < MaxStarts
    /\ pc' = "Start"
    /\ idx' = 1
    /\ stack' = <<>>
    /\ trace' = Append(trace, Event("Service.Start", NoComp, TRUE))
    /\ graphAtStart' = dependantComponents
    /\ nStarts' = nStarts + 1
    /\ startedComponents' = {}
    /\ UNCHANGED <<components, dependantComponents,
                   closingStack, lastErr, nRegs, nStops, nFaults>>

\* Service.Start is called
Start ==
    /\ MayCall
    /\ nStarts < MaxStarts
    /\ pc' = "Start"
    /\ idx' = 1
    /\ stack' = <<>>
    /\ trace' = Append(trace, Event("Service.Start", NoComp, TRUE))
    /\ graphAtStart' = dependantComponents
    /\ nStarts' = nStarts + 1
    /\ UNCHANGED <<components, dependantComponents, startedComponents,
                   closingStack, lastErr, nRegs, nStops, nFaults>>

\* Service.Start, one turn of the loop: startComponent is called on the next
\* list entry; after the last entry Start returns nil
StartLoop ==
    /\ pc = "Start" /\ stack = <<>>
    /\ IF idx <= Len(components)
       THEN Continue(Call(<<>>, idx, components[idx]), trace)
       ELSE /\ pc' = "idle"
            /\ lastErr' = NilErr
            /\ trace' = Append(trace, Event("Service.Start returns", NoComp, TRUE))
            /\ UNCHANGED <<stack, idx>>
    /\ UNCHANGED <<components, dependantComponents, startedComponents,
                   closingStack, graphAtStart, nRegs, nStarts, nStops, nFaults>>

\* startComponent, one turn of the dependency loop: the recursive call
startComponentRecurse ==
    /\ pc = "Start" /\ stack # <<>>
    /\ Top.i <= Len(Top.depComponents)
    /\ Continue(Call(stack, idx, Top.depComponents[Top.i]), trace)
    /\ UNCHANGED <<components, dependantComponents, startedComponents,
                   closingStack, graphAtStart, nRegs, nStarts, nStops, nFaults>>

\* startComponent after the loop as it would be if it recorded the teardown
\* action and marked the component before looking at the error
startComponentInvoke_MarkOnError(ok) ==
    /\ pc = "Start" /\ stack # <<>>
    /\ Top.i > Len(Top.depComponents)
    /\ closingStack' = Add(closingStack, "something", Top.component)
    /\ startedComponents' = startedComponents \cup {Top.component}
    /\ IF ok
       THEN UNCHANGED nFaults
       ELSE nFaults < MaxFaults /\ nFaults' = nFaults + 1
    /\ Continue(Resume(Front(stack), idx, ~ok),
                Append(trace, Event("Start", Top.component, ok)))
    /\ UNCHANGED <<components, dependantComponents, graphAtStart,
                   nRegs, nStarts, nStops>>

\* startComponent after the loop as it would be if it added the teardown
\* action before looking at the error of component.Start
startComponentInvoke_AddOnError(ok) ==
    /\ pc = "Start" /\ stack # <<>>
    /\ Top.i > Len(Top.depComponents)
    /\ closingStack' = Add(closingStack, "something", Top.component)
    /\ IF ok
       THEN /\ startedComponents' = startedComponents \cup {Top.component}
            /\ UNCHANGED nFaults
       ELSE /\ nFaults < MaxFaults
            /\ nFaults' = nFaults + 1
            /\ UNCHANGED startedComponents
    /\ Continue(Resume(Front(stack), idx, ~ok),
                Append(trace, Event("Start", Top.component, ok)))
    /\ UNCHANGED <<components, dependantComponents, graphAtStart,
                   nRegs, nStarts, nStops>>

\* startComponent, after the loop: component.Start(ctx) returns nil or an
\* error; on nil the teardown action is added and the component is marked
\* started, and startComponent returns
startComponentInvoke(ok) ==
    /\ pc = "Start" /\ stack # <<>>
    /\ Top.i > Len(Top.depComponents)
    /\ IF ok
       THEN /\ closingStack' = Add(closingStack, "something", Top.component)
            /\ startedComponents' = startedComponents \cup {Top.component}
            /\ UNCHANGED nFaults
       ELSE /\ nFaults < MaxFaults
            /\ nFaults' = nFaults + 1
            /\ UNCHANGED <<closingStack, startedComponents>>
    /\ Continue(Resume(Front(stack), idx, ~ok),
                Append(trace, Event("Start", Top.component, ok)))
    /\ UNCHANGED <<components, dependantComponents, graphAtStart,
                   nRegs, nStarts, nStops>>

\* Service.Stop is called
Stop ==
    /\ MayCall
    /\ nStops < MaxStops
    /\ pc' = "Stop"
    /\ trace' = Append(trace, Event("Service.Stop", NoComp, TRUE))
    /\ nStops' = nStops + 1
    /\ UNCHANGED <<components, dependantComponents, startedComponents,
                   closingStack, idx, stack, lastErr, graphAtStart,
                   nRegs, nStarts, nFaults>>

\* the teardown action as it would be if it unmarked the stopped component
Close_Unmark(ok) ==
    /\ pc = "Stop"
    /\ LET p == pop(closingStack)
       IN /\ closingStack' = p.rest
          /\ startedComponents' = startedComponents \ {p.v.Action}
          /\ IF p.v = NilFunction
             THEN /\ ok
                  /\ pc' = "idle"
                  /\ trace' = Append(trace, Event("Service.Stop returns", NoComp, TRUE))
                  /\ UNCHANGED nFaults
             ELSE /\ trace' = Append(trace, Event("Stop", p.v.Action, ok))
                  /\ IF ok THEN UNCHANGED nFaults
                     ELSE nFaults < MaxFaults /\ nFaults' = nFaults + 1
                  /\ UNCHANGED pc
    /\ UNCHANGED <<components, dependantComponents,
                   idx, stack, lastErr, graphAtStart,
                   nRegs, nStarts, nStops>>

\* Stack.Close as it would be if a failing component Stop ended the loop
Close_StopOnError(ok) ==
    /\ pc = "Stop"
    /\ LET p == pop(closingStack)
       IN /\ closingStack' = p.rest
          /\ IF p.v = NilFunction
             THEN /\ ok
                  /\ pc' = "idle"
                  /\ trace' = Append(trace, Event("Service.Stop returns", NoComp, TRUE))
                  /\ UNCHANGED nFaults
             ELSE IF ok
             THEN /\ trace' = Append(trace, Event("Stop", p.v.Action, ok))
                  /\ UNCHANGED <<pc, nFaults>>
             ELSE /\ nFaults < MaxFaults
                  /\ nFaults' = nFaults + 1
                  /\ pc' = "idle"
                  /\ trace' = trace \o <<Event("Stop", p.v.Action, ok),
                                         Event("Service.Stop returns", NoComp, TRUE)>>
    /\ UNCHANGED <<components, dependantComponents, startedComponents,
                   idx, stack, lastErr, graphAtStart,
                   nRegs, nStarts, nStops>>

\* Stack.Close, one turn of the loop: pop; nil ends the loop and Service.Stop
\* returns, otherwise the action calls component.Stop(ctx), whose error is
\* only printed
Close(ok) ==
    /\ pc = "Stop"
    /\ LET p == pop(closingStack)
       IN /\ closingStack' = p.rest
          /\ IF p.v = NilFunction
             THEN /\ ok
                  /\ pc' = "idle"
                  /\ trace' = Append(trace, Event("Service.Stop returns", NoComp, TRUE))
                  /\ UNCHANGED nFaults
             ELSE /\ trace' = Append(trace, Event("Stop", p.v.Action, ok))
                  /\ IF ok THEN UNCHANGED nFaults
                     ELSE nFaults < MaxFaults /\ nFaults' = nFaults + 1
                  /\ UNCHANGED pc
    /\ UNCHANGED <<components, dependantComponents, startedComponents,
                   idx, stack, lastErr, graphAtStart,
                   nRegs, nStarts, nStops>>

Next ==
    \/ \E a, b \in Comps : RegisterDependentComponents(a, b)
    \/ Start
    \/ StartLoop
    \/ startComponentRecurse
    \/ \E ok \in BOOLEAN : startComponentInvoke(ok)
    \/ Stop
    \/ \E ok \in BOOLEAN : Close(ok)

Spec == Init /\ [][Next]_vars

\* ------------------------------------------------------------------------
\* Reading the trace
\* ------------------------------------------------------------------------
\* the Service-level events (calls and returns of Service.Start and Stop)
Markers == SelectSeq(trace, LAMBDA e : e.c = NoComp)

\* positions lo+1 .. hi-1 of the trace
Between(lo, hi) == SubSeq(trace, lo + 1, hi - 1)

\* the components of the events of s with operation op (and result ok)
CompsOf(s, op) ==
    LET sel == SelectSeq(s, LAMBDA e : e.op = op)
    IN [i \in 1..Len(sel) |-> sel[i].c]

OkCompsOf(s, op) ==
    LET sel == SelectSeq(s, LAMBDA e : e.op = op /\ e.ok)
    IN [i \in 1..Len(sel) |-> sel[i].c]

Count(s, op, c) == Cardinality({i \in DOMAIN s : s[i].op = op /\ s[i].c = c})

\* position of the last event with operation op before position k (0: none)
LastBefore(op, k) ==
    LET S == {i \in 1..(k - 1) : trace[i].op = op}
    IN IF S = {} THEN 0 ELSE CHOOSE i \in S : \A j \in S : j <= i

\* c's Start has been invoked and has returned nil among the first n events
StartedOkBy(c, n) == \E i \in 1..n : trace[i] = Event("Start", c, TRUE)

\* components reachable from the list through the edges of graph g
RECURSIVE ReachFrom(_, _, _)
ReachFrom(S, g, fuel) ==
    LET T == S \cup UNION {Range(g[c]) : c \in S}
    IN IF fuel = 0 \/ T = S THEN S ELSE ReachFrom(T, g, fuel - 1)

Managed == ReachFrom(Range(components), graphAtStart, Cardinality(Comps))

\* one Start that returned nil, then one Stop, in progress or returned
StartedThenStopping ==
    /\ nStarts = 1 /\ nStops = 1
    /\ Markers \in
         {<<Event("Service.Start", NoComp, TRUE),
            Event("Service.Start returns", NoComp, TRUE),
            Event("Service.Stop", NoComp, TRUE)>>,
          <<Event("Service.Start", NoComp, TRUE),
            Event("Service.Start returns", NoComp, TRUE),
            Event("Service.Stop", NoComp, TRUE),
            Event("Service.Stop returns", NoComp, TRUE)>>}

\* one Start that returned nil, then one Stop that returned
OneLifecycle == pc = "idle" /\ StartedThenStopping

\* ------------------------------------------------------------------------
\* Claims
\* ------------------------------------------------------------------------

\* the step invokes c's Start operation
InvokesStart(c) ==
    /\ Len(trace') = Len(trace) + 1
    /\ Last(trace').op = "Start"
    /\ Last(trace').c = c

\* C1: whenever a component's Start operation is invoked, every component
\* registered as its direct dependency has already had its own Start invoked
\* and returned without error.
C1_DependenciesStartedFirst ==
    [][\A c \in Comps :
         InvokesStart(c) =>
           \A b \in Range(dependantComponents[c]) : StartedOkBy(b, Len(trace))]_vars

\* C1 witness: a component with two registered dependencies has been started
\* by a Start that found none of them started.
C1_Witness ==
    \E i \in DOMAIN trace :
        /\ trace[i].op = "Start" /\ trace[i].ok
        /\ Len(graphAtStart[trace[i].c]) = 2
        /\ nStarts = 1

\* C2: after a Start that returned nil followed by Stop, for every edge
\* "a depends on b" registered before the Start, a's Stop has been invoked
\* before b's Stop is invoked, and once Stop has returned b has been stopped
\* if a has.
C2_DependentsStopFirst ==
    StartedThenStopping =>
      \A a \in Comps : \A b \in Range(graphAtStart[a]) :
        /\ \A j \in DOMAIN trace :
             (trace[j].op = "Stop" /\ trace[j].c = b /\ StartedOkBy(a, j)) =>
               \E i \in 1..(j - 1) : trace[i].op = "Stop" /\ trace[i].c = a
        /\ (OneLifecycle /\ Count(trace, "Stop", a) > 0) =>
               Count(trace, "Stop", b) > 0

\* C2 witness: the diamond (A depends on B and C, B depends on C) has been
\* started and stopped.
C2_Witness ==
    /\ OneLifecycle
    /\ graphAtStart = [c \in Comps |->
          IF c = "A" THEN <<"B", "C">> ELSE IF c = "B" THEN <<"C">> ELSE <<>>]
    /\ CompsOf(trace, "Stop") = <<"A", "B", "C">>

\* C3: when a Stop call returns, the Stop operations it invoked are, in
\* order, the reverse of the Start operations that completed without error
\* since the previous Stop call.
C3_StopReversesStart ==
    (trace # <<>> /\ Last(trace).op = "Service.Stop returns") =>
      LET k == Len(trace)
          j == LastBefore("Service.Stop", k)
          p == LastBefore("Service.Stop", j)
      IN CompsOf(Between(j, k), "Stop")
           = Reverse(OkCompsOf(Between(p, j), "Start"))

\* C3 witness: chain A depends on B depends on C, started C, B, A and stopped
\* A, B, C, with the list naming A only.
C3_Witness ==
    /\ OneLifecycle
    /\ graphAtStart = [c \in Comps |->
          IF c = "A" THEN <<"B">> ELSE IF c = "B" THEN <<"C">> ELSE <<>>]
    /\ OkCompsOf(trace, "Start") = <<"C", "B", "A">>
    /\ CompsOf(trace, "Stop") = <<"A", "B", "C">>

\* C4: in one lifecycle (one Start that returns nil, then one Stop), every
\* component of the list or reachable from it has its Start invoked exactly
\* once and its Stop invoked exactly once.
C4_ExactlyOnce ==
    OneLifecycle =>
      \A c \in Managed :
        Count(trace, "Start", c) = 1 /\ Count(trace, "Stop", c) = 1

\* C4 witness: the diamond (B depends on A and C, A depends on C) with A and
\* B both in the list, so that C is reached as a direct and as a transitive
\* dependency and A from the list and as a dependency.
C4_Witness ==
    /\ OneLifecycle
    /\ components = <<"A", "B">>
    /\ graphAtStart = [c \in Comps |->
          IF c = "B" THEN <<"A", "C">> ELSE IF c = "A" THEN <<"C">> ELSE <<>>]

\* C5: if a depends on b is registered, RegisterDependentComponents(b, a)
\* returns the dependency-cycle error and leaves the graph unchanged.
C5_ReverseEdgeRejected ==
    [][\A a, b \in Comps :
         (Contains(dependantComponents[a], b) /\ RegisterDependentComponents(b, a)) =>
           (lastErr' = dependencyCycleError
              /\ dependantComponents' = dependantComponents)]_vars

\* C5 witness: a reverse registration has just been rejected.
C5_Witness ==
    /\ lastErr = dependencyCycleError
    /\ \E a, b \in Comps : a # b /\ Contains(dependantComponents[a], b)

\* C6 (as claimed): RegisterDependentComponents(a, b) returns the
\* already-registered error whenever a's list already contains b, for all
\* a and b, leaving the graph unchanged.
C6_Original ==
    [][\A a, b \in Comps :
         (Contains(dependantComponents[a], b) /\ RegisterDependentComponents(a, b)) =>
           (lastErr' = alreadyRegisteredError
              /\ dependantComponents' = dependantComponents)]_vars

\* C6 (amended): when a's list already contains b, the call leaves the graph
\* unchanged and returns the already-registered error if b's list does not
\* contain a, and the dependency-cycle error if it does (a registered on
\* itself).
C6_DuplicateRejected ==
    [][\A a, b \in Comps :
         (Contains(dependantComponents[a], b) /\ RegisterDependentComponents(a, b)) =>
           /\ dependantComponents' = dependantComponents
           /\ lastErr' = IF Contains(dependantComponents[b], a)
                         THEN dependencyCycleError
                         ELSE alreadyRegisteredError]_vars

\* C6 witness: a duplicate registration has just been rejected.
C6_Witness ==
    /\ lastErr = alreadyRegisteredError
    /\ \E a, b \in Comps : Contains(dependantComponents[a], b)

\* C7: when a component's Start returns an error, nothing is invoked after
\* it in that call (the next event is Service.Start returning an error), and
\* every component started before it is in the started set.
C7_FailFast ==
    nFaults > 0 =>
    \A i \in DOMAIN trace :
      (trace[i].op = "Start" /\ ~trace[i].ok) =>
        /\ i < Len(trace)
        /\ trace[i + 1] = Event("Service.Start returns", NoComp, FALSE)
        /\ \A c \in Comps : StartedOkBy(c, i) => c \in startedComponents

\* C7 witness: Service.Start has returned an error after one component was
\* started and the next one failed, with a list entry still not started.
C7_Witness ==
    /\ Len(trace) >= 4
    /\ Last(trace) = Event("Service.Start returns", NoComp, FALSE)
    /\ trace[Len(trace) - 1].op = "Start" /\ ~trace[Len(trace) - 1].ok
    /\ trace[Len(trace) - 2].op = "Start" /\ trace[Len(trace) - 2].ok
    /\ \E c \in Range(components) : Count(trace, "Start", c) = 0

\* the Stop call that is running or has just returned: position of its call
CurrentStop == LastBefore("Service.Stop", Len(trace) + 1)

InStop == trace # <<>> /\ (pc = "Stop" \/ Last(trace).op = "Service.Stop returns")

\* the components of the teardown actions on the closing stack, oldest first
Actions(functions) == [i \in 1..Len(functions) |-> functions[i].Action]

\* C8: in a Stop call in which a component's Stop returned an error, the
\* Stop operations invoked so far followed by the actions still on the
\* closing stack (newest first) are the reverse of the components started
\* since the previous Stop call, and the stack is empty when Stop returns.
C8_DrainContinues ==
    (nFaults > 0 /\ InStop
       /\ \E i \in CurrentStop..Len(trace) : trace[i].op = "Stop" /\ ~trace[i].ok) =>
      LET j == CurrentStop
          p == LastBefore("Service.Stop", j)
      IN /\ CompsOf(Between(j, Len(trace) + 1), "Stop") \o Reverse(Actions(closingStack))
              = Reverse(OkCompsOf(Between(p, j), "Start"))
         /\ (pc = "idle" => closingStack = <<>>)

\* C8 witness: Stop has returned after a component's Stop returned an error
\* and another component was stopped after it.
C8_Witness ==
    /\ pc = "idle"
    /\ \E i \in DOMAIN trace :
         /\ trace[i].op = "Stop" /\ ~trace[i].ok
         /\ i < Len(trace) /\ trace[i + 1].op = "Stop"

\* depth-first post-order over list and graph g, skipping what is in done:
\* the components appended to order
RECURSIVE VisitAll(_, _, _, _, _)
VisitAll(list, g, done, order, fuel) ==
    IF list = <<>> \/ fuel = 0 THEN order
    ELSE LET c == Head(list)
             seen == done \cup Range(order)
             sub == IF c \in seen THEN order
                    ELSE Append(VisitAll(g[c], g, done, order, fuel - 1), c)
         IN VisitAll(Tail(list), g, done, sub, fuel)

PostOrder(list, g, done) == VisitAll(list, g, done, <<>>, Cardinality(Comps) + 2)

\* C9: when a Start call has returned nil, the component Start operations
\* it invoked are, in order, the depth-first post-order of the list and the
\* dependency lists, skipping the components started before the call.
C9_PostOrder ==
    (trace # <<>> /\ Last(trace) = Event("Service.Start returns", NoComp, TRUE)) =>
      LET k == Len(trace)
          j == LastBefore("Service.Start", k)
      IN CompsOf(Between(j, k), "Start")
           = PostOrder(components, graphAtStart, {c \in Comps : StartedOkBy(c, j)})

\* C9 witness: B depends on C and then on A (registered in that order), the
\* list is [A, B], and Start has started A, C, B.
C9_Witness ==
    /\ trace # <<>> /\ Last(trace) = Event("Service.Start returns", NoComp, TRUE)
    /\ components = <<"A", "B">>
    /\ graphAtStart["B"] = <<"C", "A">>
    /\ CompsOf(trace, "Start") = <<"A", "C", "B">>

\* C10 (as claimed): there are no components A and B with B in A's list and
\* A in B's list.
C10_Original ==
    \A a, b \in Comps :
      ~(Contains(dependantComponents[a], b) /\ Contains(dependantComponents[b], a))

\* C10 (amended): there are no two different components A and B with B in
\* A's list and A in B's list.
C10_NoTwoNodeCycle ==
    \A a, b \in Comps :
      a # b => ~(Contains(dependantComponents[a], b) /\ Contains(dependantComponents[b], a))

\* C10 witness: three registrations were made, the last one the rejected
\* reverse of an accepted one.
C10_Witness ==
    /\ nRegs = 3
    /\ lastErr = dependencyCycleError
    /\ \E a, b \in Comps : a # b /\ Contains(dependantComponents[a], b)
    /\ \E c \in Comps : Len(dependantComponents[c]) = 2

\* C11: no component's dependency list contains the same component more
\* than once.
C11_NoDuplicateEdges ==
    \A c \in Comps :
      Cardinality(Range(dependantComponents[c])) = Len(dependantComponents[c])

\* C11 witness: a component has two dependencies and a repeated
\* registration has just been rejected.
C11_Witness ==
    /\ lastErr = alreadyRegisteredError
    /\ \E c \in Comps : Len(dependantComponents[c]) = 2

\* C12: when Service.Start has returned because a component's Start
\* returned an error, that component is not in the started set and has no
\* teardown action on the closing stack; and when a Stop call that follows
\* the failed Start returns, it has invoked Stop on exactly the components
\* started without error since the previous Stop call, newest first, and not
\* on the failed one.
C12_FailedNotRecorded ==
    nFaults > 0 =>
      /\ (Last(trace) = Event("Service.Start returns", NoComp, FALSE)) =>
           LET c == trace[Len(trace) - 1].c
           IN /\ c \notin startedComponents
              /\ c \notin Range(Actions(closingStack))
      /\ (/\ Last(trace).op = "Service.Stop returns"
          /\ CurrentStop > 1
          /\ trace[CurrentStop - 1] = Event("Service.Start returns", NoComp, FALSE)) =>
           LET k == Len(trace)
               j == CurrentStop
               p == LastBefore("Service.Stop", j)
               stopped == CompsOf(Between(j, k), "Stop")
           IN /\ stopped = Reverse(OkCompsOf(Between(p, j), "Start"))
              /\ trace[j - 2].c \notin Range(stopped)

\* C12 witness: a Start that started one component and failed at the next
\* was followed by a Stop, which has returned after stopping a component.
C12_Witness ==
    /\ nFaults > 0
    /\ Last(trace).op = "Service.Stop returns"
    /\ CurrentStop > 1
    /\ trace[CurrentStop - 1] = Event("Service.Start returns", NoComp, FALSE)
    /\ trace[Len(trace) - 1].op = "Stop"

\* C13: when Service.Start has returned and Stop has not been called, the
\* closing stack holds one teardown action for each component of the started
\* set and no other, in the order in which the Starts completed.
C13_StackMatchesStarted ==
    (nStops = 0 /\ nStarts > 0 /\ pc = "idle") =>
      /\ Actions(closingStack) = OkCompsOf(trace, "Start")
      /\ Range(Actions(closingStack)) = startedComponents
      /\ Len(closingStack) = Cardinality(startedComponents)

\* C13 witness: Service.Start has returned an error with two components
\* started, and Stop has not been called.
C13_Witness ==
    /\ nStops = 0 /\ pc = "idle"
    /\ trace # <<>>
    /\ Last(trace) = Event("Service.Start returns", NoComp, FALSE)
    /\ Len(closingStack) = 2

\* positions of the Start invocations of c that returned nil
OkStarts(c) == {i \in DOMAIN trace : trace[i] = Event("Start", c, TRUE)}

\* C14 (as claimed): at the end of every call to Service.Start, every
\* component of the started set has had its Start invoked exactly once.
C14_Original ==
    (nStarts > 0 /\ pc = "idle") =>
      \A c \in startedComponents : Count(trace, "Start", c) = 1

\* C14 (amended): at the end of every call to Service.Start, every component
\* of the started set has had exactly one Start invocation that returned
\* nil and none after it; invocations that returned an error can only come
\* before it, and there is none if no Start has returned an error.
C14_StartedOnce ==
    (nStarts > 0 /\ pc = "idle") =>
      \A c \in startedComponents :
        /\ Cardinality(OkStarts(c)) = 1
        /\ \A i \in DOMAIN trace :
             (trace[i].op = "Start" /\ trace[i].c = c /\ ~trace[i].ok) =>
               \A j \in OkStarts(c) : i < j
        /\ (nFaults = 0 => Count(trace, "Start", c) = 1)

\* C14 witness: a component whose Start failed in the first Service.Start has
\* been started by the second one.
C14_Witness ==
    /\ nStarts = 2 /\ pc = "idle"
    /\ \E c \in startedComponents : Count(trace, "Start", c) = 2

\* C15: no step removes a component from the started set, the steps of
\* Stop and a RegisterDependentComponents call leave the set unchanged, and
\* no step invokes the Start of a component that is in the started set.
C15_StartedOnlyGrows ==
    [][/\ startedComponents \subseteq startedComponents'
       /\ (pc = "Stop" \/ pc' = "Stop" \/ nRegs' # nRegs) =>
             startedComponents' = startedComponents
       /\ \A c \in startedComponents : ~InvokesStart(c)]_vars

\* C15 witness: with a component started, Stop has run, a dependency has
\* been registered and a second Start has returned.
C15_Witness ==
    /\ startedComponents # {}
    /\ nRegs > 0
    /\ Len(Markers) = 6
    /\ Markers[1].op = "Service.Start" /\ Markers[3].op = "Service.Stop"
    /\ Markers[5].op = "Service.Start"
    /\ \E i \in DOMAIN trace : trace[i].op = "Stop"

\* position j is a call of Service.Start made after an earlier
\* Service.Start returned nil and a later Service.Stop returned
Restarted(j) ==
    /\ trace[j].op = "Service.Start"
    /\ \E a \in 1..(j - 1) :
         /\ trace[a] = Event("Service.Start returns", NoComp, TRUE)
         /\ \E b \in (a + 1)..(j - 1) : trace[b].op = "Service.Stop returns"

\* C16: a Start called after an earlier Start returned nil and a Stop
\* returned invokes no component Start and returns nil, the closing stack is
\* and stays empty, and no component Stop is invoked afterwards.
C16_RestartIsNoOp ==
    (nStarts > 1 /\ nStops > 0) =>
      \A j \in DOMAIN trace :
        Restarted(j) =>
          /\ \A i \in (j + 1)..Len(trace) : trace[i].c = NoComp
          /\ j < Len(trace) =>
               trace[j + 1] = Event("Service.Start returns", NoComp, TRUE)
          /\ j = Len(trace) => pc = "Start"
          /\ closingStack = <<>>

\* C16 witness: Start, Stop, Start, Stop have all returned, the first Start
\* having started two components.
C16_Witness ==
    /\ pc = "idle"
    /\ Len(Markers) = 8
    /\ Markers[1].op = "Service.Start" /\ Markers[2].ok
    /\ Markers[3].op = "Service.Stop"
    /\ Markers[5].op = "Service.Start" /\ Markers[7].op = "Service.Stop"
    /\ Len(OkCompsOf(trace, "Start")) = 2

\* the step is one turn of the loop of Stack.Close
CloseStep == pc = "Stop" /\ trace' # trace

\* C17: every turn of Stack.Close takes the most recently added action off
\* the stack and invokes it, and nothing else; the loop ends, returning,
\* exactly when the stack is empty, so the stack shrinks with every
\* invocation and the loop terminates.  What a Close call has invoked,
\* followed by what is still stacked newest first, is always the reverse of
\* the order in which the actions were added since the previous Close call;
\* the stack is empty once Close has returned, and a Close that directly
\* follows another Close invokes no action.
C17_CloseDrainsNewestFirst ==
    /\ [][CloseStep =>
            IF closingStack = <<>>
            THEN /\ pc' = "idle"
                 /\ closingStack' = <<>>
                 /\ trace' = Append(trace, Event("Service.Stop returns", NoComp, TRUE))
            ELSE /\ pc' = "Stop"
                 /\ closingStack' = Front(closingStack)
                 /\ Len(trace') = Len(trace) + 1
                 /\ Last(trace').op = "Stop"
                 /\ Last(trace').c = Last(closingStack).Action]_vars
    /\ [](InStop =>
            LET j == CurrentStop
                p == LastBefore("Service.Stop", j)
            IN /\ CompsOf(Between(j, Len(trace) + 1), "Stop")
                    \o Reverse(Actions(closingStack))
                    = Reverse(OkCompsOf(Between(p, j), "Start"))
               /\ pc = "idle" => closingStack = <<>>
               /\ (j > 1 /\ trace[j - 1].op = "Service.Stop returns") =>
                    CompsOf(Between(j, Len(trace) + 1), "Stop") = <<>>)

\* C17 witness: a Close that invoked three actions has returned and a second
\* Close has returned after it.
C17_Witness ==
    /\ pc = "idle" /\ nStops = 2
    /\ Len(trace) > 2
    /\ Last(trace).op = "Service.Stop returns"
    /\ trace[Len(trace) - 1].op = "Service.Stop"
    /\ trace[Len(trace) - 2].op = "Service.Stop returns"
    /\ Len(CompsOf(trace, "Stop")) = 3

\* C18: closing a cycle through three different components is accepted:
\* with a depending on b and b on c, and no edge between c and a in either
\* direction, RegisterDependentComponents(c, a) returns nil and appends a to
\* c's list, leaving the other lists as they are.
C18_ThreeCycleAccepted ==
    [][\A a, b, c \in Comps :
         (/\ a # b /\ b # c /\ a # c
          /\ Contains(dependantComponents[a], b)
          /\ Contains(dependantComponents[b], c)
          /\ ~Contains(dependantComponents[a], c)
          /\ ~Contains(dependantComponents[c], a)
          /\ RegisterDependentComponents(c, a)) =>
           /\ lastErr' = NilErr
           /\ dependantComponents' =
                [dependantComponents EXCEPT ![c] = Append(@, a)]]_vars

\* C18 witness: the three calls (A, B), (B, C), (C, A) have been made on a
\* new Service, the last one returned nil and all three edges are stored.
C18_Witness ==
    /\ nRegs = 3 /\ lastErr = NilErr
    /\ dependantComponents =
         [x \in Comps |-> IF x = "A" THEN <<"B">>
                          ELSE IF x = "B" THEN <<"C">> ELSE <<"A">>]

\* C19: every call of Service.Start ends by returning: the recursion of
\* startComponent is never deeper than the number of components and never
\* exhausts the stack.
C19_StartTerminates ==
    /\ pc # "crashed"
    /\ Len(stack) <= Cardinality(Comps)

\* the components of the list and those reachable from it in graph g
ReachableIn(g) == ReachFrom(Range(components), g, Cardinality(Comps))

\* C20 (as claimed): when Service.Start has returned nil, every component of
\* the list or reachable from it through registered edges is in the started
\* set and has a teardown action on the closing stack, and a component that
\* is neither has never been started.
C20_Original ==
    (trace # <<>> /\ Last(trace) = Event("Service.Start returns", NoComp, TRUE)) =>
      /\ \A c \in ReachableIn(graphAtStart) :
           c \in startedComponents /\ c \in Range(Actions(closingStack))
      /\ \A c \in Comps \ ReachableIn(dependantComponents) :
           Count(trace, "Start", c) = 0

\* C20 (amended): when the first Service.Start call has returned nil, every
\* component of the list or reachable from it through the edges registered
\* before the call is in the started set and has a teardown action on the
\* closing stack; when any Service.Start call has returned nil, every
\* component of the list is in the started set; and at all times a component
\* that is neither in the list nor reachable from it through the registered
\* edges has never had its Start invoked.
C20_ReachableStarted ==
    /\ (nStarts > 0 /\ Last(trace) = Event("Service.Start returns", NoComp, TRUE)) =>
         /\ Range(components) \subseteq startedComponents
         /\ nStarts = 1 =>
              \A c \in ReachableIn(graphAtStart) :
                c \in startedComponents /\ c \in Range(Actions(closingStack))
    /\ \A c \in Comps \ ReachableIn(dependantComponents) :
         Count(trace, "Start", c) = 0 /\ c \notin startedComponents

\* C20 witness: the list is [A], A depends on B and C depends on A; the
\* first Start has returned nil with A and B started and C not.
C20_Witness ==
    /\ nStarts = 1 /\ trace # <<>>
    /\ Last(trace) = Event("Service.Start returns", NoComp, TRUE)
    /\ components = <<"A">>
    /\ graphAtStart = [x \in Comps |-> IF x = "A" THEN <<"B">>
                                       ELSE IF x = "C" THEN <<"A">> ELSE <<>>]
    /\ startedComponents = {"A", "B"}

\* positions of the invocations of c's Stop in the trace
StopsOf(c) == {i \in DOMAIN trace : trace[i].op = "Stop" /\ trace[i].c = c}

\* C21: across any sequence of RegisterDependentComponents, Start and Stop
\* calls on one Service, a component's Stop is invoked at most once, and
\* only after that component's Start has returned nil; a component whose
\* Stop has been invoked has no teardown action left on the closing stack.
C21_StopAtMostOnce ==
    nStops > 0 =>
      \A c \in Comps :
        /\ Cardinality(StopsOf(c)) <= 1
        /\ \A i \in StopsOf(c) :
             /\ StartedOkBy(c, i - 1)
             /\ c \notin Range(Actions(closingStack))

\* C21 witness: the list is [A, B]; the first Start started A and failed on
\* B, Stop stopped A, the retried Start started B only, and the second Stop
\* stopped B only.
C21_Witness ==
    /\ nStarts = 2 /\ nStops = 2 /\ pc = "idle"
    /\ components = <<"A", "B">>
    /\ Last(trace) = Event("Service.Stop returns", NoComp, TRUE)
    /\ \E i \in DOMAIN trace : trace[i] = Event("Start", "B", FALSE)
    /\ Count(trace, "Start", "A") = 1
    /\ Cardinality(StopsOf("A")) = 1
    /\ Cardinality(StopsOf("B")) = 1

====
